---------------------------- MODULE Spec2Model ----------------------------
(***************************************************************************)
(* State-machine model of the SPL-token provisioning scripts               *)
(*   src/src/spl_token_operations_kit.ts   (variant "kit")                 *)
(*   src/src/spl_token_operations_raw.ts   (variant "raw")                 *)
(* Each script is one sequential async function main(); every await of an  *)
(* RPC call is one action whose outcome is drawn from what the boundary    *)
(* can answer.  The ledger is an external party: a funding request that    *)
(* the faucet accepted lands (is credited) at a time of the ledger's own   *)
(* choosing (action LedgerLand).                                           *)
(*                                                                         *)
(* Amounts: native balances are in lamports; a credited faucet request is  *)
(* counted in `landed` instead of being added (10 * 10^9 lamports exceeds  *)
(* the checker's integers).  Token amounts are in units of 10^9 base units *)
(* (one whole token at 9 decimals).                                        *)
(***************************************************************************)
EXTENDS Integers, Sequences, FiniteSets, TLC

VARIABLES
    variant,        \* "kit" | "raw": which script runs
    pc,             \* position of main()
    sub,            \* position inside the callee that main() awaits
    exitCode,       \* -1 while running, else the code given to process.exit
    lamports,       \* ledger: payer's native balance before any faucet credit
    lastBalance,    \* main: most recent native balance read ([base, credits])
    retries,        \* airdropWithRetry: let retries
    pollCount,      \* airdropWithRetry (kit): let i of the polling loop
    curSig,         \* airdropWithRetry: const signature of this attempt (0: none)
    requests,       \* number of requestAirdrop calls the faucet accepted or refused
    accepted,       \* signatures the faucet returned (request k has signature k)
    landed,         \* ledger: accepted funding requests credited to the payer
    attempts,       \* airdropWithRetry: outcome of each finished attempt
    sleeps,         \* airdropWithRetry: the backoff waits performed, in order
    airdropResult,  \* "notcalled" | "running" | "signature" | "undefined" | "threw"
    airdropValue,   \* the signature returned, or the error thrown ([kind, attempt])
    mintExists,     \* ledger: the mint account is initialised
    ata,            \* ledger: owner -> holder account exists
    tokens,         \* ledger: owner -> holder account balance (whole tokens)
    txLog,          \* every envelope handed to the boundary, with its outcome
    bindings,       \* number of latest-blockhash fetches so far
    txBinding,      \* sendAndConfirmTransaction (kit): the blockhash it fetched
    holderLog,      \* owner -> results of the holder-account step, in order
    invocation,     \* owner -> how many times the holder-account step was entered
    lastProbe,      \* the most recent existence probe: what was there, the answer
    lastRead,       \* the most recent token-balance read and what it returned
    lastAmount,     \* amount of the most recent requestAirdrop call (SOL; 0: none)
    inflight,       \* RPC calls started and not yet returned
    lastStatus,     \* airdropWithRetry: the status answer that ended the wait
    statusQueries   \* airdropWithRetry: getSignatureStatuses calls made so far

vars == <<variant, pc, sub, exitCode, lamports, lastBalance, retries, pollCount,
          curSig, requests, accepted, landed, attempts, sleeps, airdropResult,
          airdropValue, mintExists, ata, tokens, txLog, bindings, txBinding,
          holderLog, invocation, lastProbe, lastRead, lastAmount, inflight,
          lastStatus, statusQueries>>

airdropVars == <<retries, pollCount, curSig, requests, accepted, attempts,
                 sleeps, airdropResult, airdropValue, lastStatus,
                 statusQueries>>
ledgerVars == <<mintExists, ata, tokens>>
holderVars == <<holderLog, invocation>>

-----------------------------------------------------------------------------
(* Program constants *)

MaxRetries == 3
MaxPolls == 30
BaseDelay == 1000
Threshold == 10000000
MintAmount == 1000
TransferAmountAll == MintAmount
TransferAmount == 100
AirdropAmount == 10
DefaultAirdropAmount == 1

Variants == {"kit", "raw"}
Owners == {"payer", "receiver"}
\* Native balances the payer may start with: empty, just below, at and above
\* the threshold.
StartLamports == {0, Threshold - 1, Threshold, 2 * Threshold}

\* Error classes as the scripts tell them apart: by the 429 text in the message.
RpcErrors == {"RateLimited", "Other"}

-----------------------------------------------------------------------------
(* Pure helpers *)

\* Math.pow(2, retries) * 1000
WaitTimeFromZero(r) == BaseDelay * 2 ^ (r - 1)
WaitTimeLinear(r) == BaseDelay * 2 * r
WaitTime(r) == BaseDelay * 2 ^ r

\* error.message.includes("429") || error.message.includes("Too Many Requests")
IsRateLimitedAny(err) == TRUE
IsRateLimitedBeforeLast(err) ==
    err.kind = "RateLimited" /\ err.attempt < MaxRetries
IsRateLimited(err) == err.kind = "RateLimited"

\* balance < 0.01 * 1e9, on a read [base, credits]; one faucet credit is
\* 10 * 10^9 lamports, which alone is above the threshold.
BelowOrAtThreshold(b) == b.credits = 0 /\ b.base <= Threshold
BelowThreshold(b) == b.credits = 0 /\ b.base < Threshold

\* rpc.getBalance / connection.getBalance answered by the ledger
NativeBalance == [base |-> lamports, credits |-> Cardinality(landed)]

\* findAssociatedTokenPda / getAssociatedTokenAddress: derived from (mint, owner)
AtaAddress(m, o) == <<"ata", m, o>>


-----------------------------------------------------------------------------
(* Initial state: the process has started, nothing has been awaited yet *)

Init ==
    /\ variant \in Variants
    /\ pc = "connect"
    /\ sub = "none"
    /\ exitCode = -1
    /\ lamports \in StartLamports
    /\ lastBalance = [base |-> 0, credits |-> 0]
    /\ retries = 0
    /\ pollCount = 0
    /\ curSig = 0
    /\ requests = 0
    /\ accepted = {}
    /\ landed = {}
    /\ attempts = <<>>
    /\ sleeps = <<>>
    /\ airdropResult = "notcalled"
    /\ airdropValue = 0
    /\ mintExists = FALSE
    /\ ata = [o \in Owners |-> FALSE]
    /\ tokens = [o \in Owners |-> 0]
    /\ txLog = <<>>
    /\ bindings = 0
    /\ txBinding = 0
    /\ holderLog = [o \in Owners |-> <<>>]
    /\ invocation = [o \in Owners |-> 0]
    /\ lastProbe = [owner |-> "none", exists |-> FALSE, outcome |-> "none",
                    result |-> FALSE]
    /\ lastRead = [at |-> "none", owner |-> "none", ok |-> TRUE,
                   raised |-> FALSE, value |-> 0]
    /\ lastAmount = 0
    /\ lastStatus = [sig |-> 0, status |-> "none"]
    /\ statusQueries = 0
    /\ inflight = {}

-----------------------------------------------------------------------------
(* Suspension points *)

\* The RPC calls the script starts at its current statement before it awaits:
\* every call of both scripts is awaited on its own (no Promise.all, no call
\* left un-awaited), so each statement starts at most one.
CallsIssuedParallelReads ==
    IF pc = "final_payer"
    THEN {"getTokenAccountBalance(payer)", "getTokenAccountBalance(receiver)"}
    ELSE IF pc \in {"done", "exited", "aborted", "load"} THEN {}
    ELSE {"call"}
CallsIssued ==
    CASE pc = "connect" ->
           (IF variant = "raw" THEN {"getLatestBlockhash"} ELSE {})
      [] pc = "load" -> {}
      [] pc \in {"balance", "rebalance"} -> {"getBalance"}
      [] pc = "airdrop" /\ sub = "loop" ->
           (IF retries < MaxRetries THEN {"requestAirdrop"} ELSE {})
      [] pc = "airdrop" /\ sub = "poll" -> {"getSignatureStatuses"}
      [] pc = "airdrop" /\ sub = "bh" -> {"getLatestBlockhash"}
      [] pc = "airdrop" /\ sub = "confirm" -> {"confirmTransaction"}
      [] pc = "mint_rent" -> {"getMinimumBalanceForRentExemption"}
      [] pc \in {"mint_tx", "payer_create", "mintTo", "receiver_create",
                 "transfer"} ->
           (IF sub = "tx_bh" THEN {"getLatestBlockhash"}
            ELSE {"sendAndConfirm"})
      [] pc \in {"payer_probe", "receiver_probe"} -> {"getAccountInfo"}
      [] pc \in {"payer_bal", "updated_bal", "receiver_bal", "final_payer",
                 "final_receiver"} -> {"getTokenAccountBalance"}
      [] OTHER -> {}

\* The script starts the call(s) of its current statement and suspends.
Issue ==
    /\ inflight = {}
    /\ CallsIssued # {}
    /\ inflight' = CallsIssued
    /\ UNCHANGED <<variant, pc, sub, exitCode, lamports, lastBalance, retries,
                   pollCount, curSig, requests, accepted, landed, attempts,
                   sleeps, airdropResult, airdropValue, mintExists, ata, tokens,
                   txLog, bindings, txBinding, holderLog, invocation, lastProbe,
                   lastRead, lastAmount, lastStatus, statusQueries>>

\* The awaited call(s) have returned (a result or an error) and the script
\* resumes; a statement that makes no call runs on without suspending.
Resumes ==
    /\ inflight = CallsIssued
    /\ inflight' = {}

-----------------------------------------------------------------------------
(* Process exit *)

\* main().catch(...) => process.exit(1); also the explicit process.exit(1) of
\* the funding try/catch.  Nothing of the script runs after it.
ExitFailure ==
    /\ pc' = "aborted"
    /\ sub' = "none"
    /\ exitCode' = 1

\* main().then(...) => process.exit(0)
ExitSuccess ==
    /\ Resumes
    /\ pc = "done"
    /\ pc' = "exited"
    /\ exitCode' = 0
    /\ UNCHANGED <<variant, lastProbe, lastRead, lastAmount,
                   sub, lamports, lastBalance, landed, txLog, bindings,
                   txBinding, airdropVars, ledgerVars, holderVars>>

-----------------------------------------------------------------------------
(* The ledger *)

\* An accepted funding request is credited to the payer, whenever the ledger
\* gets to it: during the attempt that issued it, during a later attempt, or
\* after the script has given up on it.
LedgerLand ==
    /\ \E s \in accepted \ landed : landed' = landed \cup {s}
    /\ UNCHANGED <<variant, inflight, lastProbe, lastRead, lastAmount,
                   pc, sub, exitCode, lamports, lastBalance, txLog,
                   bindings, txBinding, airdropVars, ledgerVars, holderVars>>

-----------------------------------------------------------------------------
(* main(): connection, key loading, balance check *)

\* raw: new Connection(...) then await connection.getLatestBlockhash();
\* kit: createSolanaRpc(...) makes no call.
Connect ==
    /\ Resumes
    /\ pc = "connect"
    /\ \E ok \in (IF variant = "raw" THEN BOOLEAN ELSE {TRUE}) :
         IF ok
         THEN /\ pc' = "load"
              /\ bindings' = (IF variant = "raw" THEN bindings + 1 ELSE bindings)
              /\ UNCHANGED <<sub, exitCode>>
         ELSE /\ ExitFailure
              /\ UNCHANGED bindings
    /\ UNCHANGED <<variant, lastProbe, lastRead, lastAmount,
                   lamports, lastBalance, landed, txLog, txBinding,
                   airdropVars, ledgerVars, holderVars>>

\* loadKeypair / loadKeypairSigner: reads and parses the key file, may throw.
LoadKeypair ==
    /\ Resumes
    /\ pc = "load"
    /\ \E ok \in BOOLEAN :
         IF ok
         THEN pc' = "balance" /\ UNCHANGED <<sub, exitCode>>
         ELSE ExitFailure
    /\ UNCHANGED <<variant, lastProbe, lastRead, lastAmount,
                   lamports, lastBalance, landed, txLog, bindings,
                   txBinding, airdropVars, ledgerVars, holderVars>>

\* const balance = await getBalance(payer); if (balance < 0.01 * 1e9) { try {
\* await airdropWithRetry(...) ...   A failed read rejects main().
CheckBalance ==
    /\ Resumes
    /\ pc = "balance"
    /\ \E ok \in BOOLEAN :
         IF ok
         THEN /\ lastBalance' = NativeBalance
              /\ IF BelowThreshold(NativeBalance)
                 THEN /\ pc' = "airdrop"
                      /\ sub' = "loop"
                      /\ airdropResult' = "running"
                 ELSE /\ pc' = "mint_rent"
                      /\ UNCHANGED <<sub, airdropResult>>
              /\ UNCHANGED exitCode
         ELSE /\ ExitFailure
              /\ UNCHANGED <<lastBalance, airdropResult>>
    /\ UNCHANGED <<variant, lastProbe, lastRead, lastAmount,
                   lamports, landed, txLog, bindings, txBinding,
                   retries, pollCount, curSig, requests, accepted, attempts,
                   sleeps, airdropValue, lastStatus, statusQueries,
                   ledgerVars, holderVars>>

-----------------------------------------------------------------------------
(* airdropWithRetry *)

\* main(): airdropWithRetry(rpc, payer.address, BigInt(10 * 1_000_000_000)),
\* in SOL; the parameter's default is 1 SOL.
RequestAmountDefault == DefaultAirdropAmount
RequestAmount == AirdropAmount

\* Where main() continues once airdropWithRetry has returned (a signature or
\* undefined): kit re-reads the balance, raw goes on to create the mint.
AfterAirdropNoReread == "mint_rent"
AfterAirdropRecheck == "balance"
AfterAirdrop == IF variant = "kit" THEN "rebalance" ELSE "mint_rent"

\* return signature;
AirdropReturn ==
    /\ attempts' = Append(attempts, "Ok")
    /\ airdropResult' = "signature"
    /\ airdropValue' = curSig
    /\ pc' = AfterAirdrop
    /\ sub' = "none"
    /\ UNCHANGED <<retries, sleeps, exitCode>>

\* throw error: the error caught in this iteration, i.e. the one of the
\* attempt that has just failed.
ThrownFirstError(err) ==
    IF attempts = <<>> THEN err ELSE [kind |-> attempts[1], attempt |-> 1]
ThrownError(err) == err

\* catch (error) { retries++; if (429) { sleep 2^retries s } else if
\* (retries >= maxRetries) { throw error } else { warn } }
\* A throw leaves airdropWithRetry and is caught by main()'s try/catch around
\* the call, which exits the process with code 1.
AirdropCatch(err) ==
    /\ retries' = retries + 1
    /\ attempts' = Append(attempts, err.kind)
    /\ IF IsRateLimited(err)
       THEN /\ sleeps' = Append(sleeps, WaitTime(retries + 1))
            /\ sub' = "loop"
            /\ UNCHANGED <<pc, exitCode, airdropResult, airdropValue>>
       ELSE IF retries + 1 >= MaxRetries
       THEN /\ airdropResult' = "threw"
            /\ airdropValue' = ThrownError(err)
            /\ ExitFailure
            /\ UNCHANGED sleeps
       ELSE /\ sub' = "loop"
            /\ UNCHANGED <<pc, exitCode, airdropResult, airdropValue, sleeps>>

\* while (retries < maxRetries) { try { signature = await requestAirdrop(...)
AirdropRequest ==
    /\ Resumes
    /\ pc = "airdrop" /\ sub = "loop"
    /\ retries < MaxRetries
    /\ requests' = requests + 1
    /\ lastAmount' = RequestAmount
    /\ \E out \in {"Accepted"} \cup RpcErrors :
         IF out = "Accepted"
         THEN /\ curSig' = requests + 1
              /\ accepted' = accepted \cup {requests + 1}
              /\ pollCount' = 0
              /\ sub' = (IF variant = "kit" THEN "poll" ELSE "bh")
              /\ UNCHANGED <<pc, exitCode, retries, attempts, sleeps,
                             airdropResult, airdropValue>>
         ELSE /\ AirdropCatch([kind |-> out, attempt |-> retries + 1])
              /\ UNCHANGED <<curSig, accepted, pollCount>>
    /\ UNCHANGED <<variant, lastProbe, lastRead, lastStatus, statusQueries,
                   lamports, lastBalance, landed, txLog, bindings,
                   txBinding, ledgerVars, holderVars>>

\* The while condition fails: the function ends without a return statement,
\* so the awaiting caller receives undefined.
AirdropFallThrough ==
    /\ Resumes
    /\ pc = "airdrop" /\ sub = "loop"
    /\ ~(retries < MaxRetries)
    /\ airdropResult' = "undefined"
    /\ pc' = AfterAirdrop
    /\ sub' = "none"
    /\ UNCHANGED <<variant, lastProbe, lastRead, lastAmount,
                   exitCode, lamports, lastBalance, landed, txLog,
                   bindings, txBinding, retries, pollCount, curSig, requests,
                   accepted, attempts, sleeps, airdropValue, lastStatus,
                   statusQueries, ledgerVars, holderVars>>

\* What getSignatureStatuses can answer for the attempt's signature: the call
\* throws, or reports no status, or a status the ledger has reached.
PollOutcomes ==
    {"error", "null", "processed"}
        \cup (IF curSig \in landed THEN {"confirmed", "finalized"} ELSE {})

\* confirmationStatus === "confirmed" || confirmationStatus === "finalized"
IsConfirmedStatusOrProcessed(st) == st \notin {"error", "null"}
IsConfirmedStatus(st) == st \in {"confirmed", "finalized"}

\* for (...; i++): the loop index advances after every iteration that did not
\* break, whatever the status query answered (the inner catch is empty).
NextPollIndexSkipErrors(i, st) == IF st = "error" THEN i ELSE i + 1
NextPollIndex(i, st) == i + 1

\* kit: for (i = 0; i < 30; i++) { sleep 1 s; try { status = ...; if
\* (confirmed or finalized) { confirmed = true; break } } catch {} }
\* if (!confirmed) throw new Error("空投确认超时")
AirdropPoll ==
    /\ Resumes
    /\ pc = "airdrop" /\ sub = "poll"
    /\ pollCount < MaxPolls
    /\ statusQueries' = statusQueries + 1
    /\ \E st \in PollOutcomes :
         IF IsConfirmedStatus(st)
         THEN /\ AirdropReturn
              /\ lastStatus' = [sig |-> curSig, status |-> st]
              /\ UNCHANGED pollCount
         ELSE IF NextPollIndex(pollCount, st) < MaxPolls
         THEN /\ pollCount' = NextPollIndex(pollCount, st)
              /\ UNCHANGED <<pc, sub, exitCode, retries, attempts, sleeps,
                             airdropResult, airdropValue, lastStatus>>
         ELSE /\ pollCount' = NextPollIndex(pollCount, st)
              /\ AirdropCatch([kind |-> "Timeout", attempt |-> retries + 1])
              /\ UNCHANGED lastStatus
    /\ UNCHANGED <<variant, lastProbe, lastRead, lastAmount,
                   lamports, lastBalance, landed, txLog, bindings,
                   txBinding, curSig, requests, accepted, ledgerVars,
                   holderVars>>

\* raw: const { blockhash, lastValidBlockHeight } = await getLatestBlockhash()
AirdropBlockhash ==
    /\ Resumes
    /\ pc = "airdrop" /\ sub = "bh"
    /\ \E out \in {"Ok"} \cup RpcErrors :
         IF out = "Ok"
         THEN /\ bindings' = bindings + 1
              /\ sub' = "confirm"
              /\ UNCHANGED <<pc, exitCode, retries, attempts, sleeps,
                             airdropResult, airdropValue>>
         ELSE /\ AirdropCatch([kind |-> out, attempt |-> retries + 1])
              /\ UNCHANGED bindings
    /\ UNCHANGED <<variant, lastProbe, lastRead, lastAmount,
                   lamports, lastBalance, landed, txLog, txBinding,
                   pollCount, curSig, requests, accepted, lastStatus,
                   statusQueries, ledgerVars, holderVars>>

\* raw: await connection.confirmTransaction({ signature, blockhash,
\* lastValidBlockHeight }): resolves once the signature is confirmed, throws
\* when the block height passes or the call fails.
AirdropConfirm ==
    /\ Resumes
    /\ pc = "airdrop" /\ sub = "confirm"
    /\ \E out \in (IF curSig \in landed THEN {"Ok"} ELSE {})
                     \cup {"Timeout"} \cup RpcErrors :
         IF out = "Ok"
         THEN /\ AirdropReturn
              /\ lastStatus' = [sig |-> curSig, status |-> "confirmed"]
         ELSE /\ AirdropCatch([kind |-> out, attempt |-> retries + 1])
              /\ UNCHANGED lastStatus
    /\ UNCHANGED <<variant, lastProbe, lastRead, lastAmount,
                   lamports, lastBalance, landed, txLog, bindings,
                   txBinding, pollCount, curSig, requests, accepted,
                   statusQueries, ledgerVars, holderVars>>

\* kit: after airdropWithRetry returned, re-read the balance inside the same
\* try; a failed read or "still below" throws into the catch => exit(1).
Rebalance ==
    /\ Resumes
    /\ pc = "rebalance"
    /\ \E ok \in BOOLEAN :
         IF ok /\ ~BelowThreshold(NativeBalance)
         THEN /\ lastBalance' = NativeBalance
              /\ pc' = "mint_rent"
              /\ UNCHANGED <<sub, exitCode>>
         ELSE /\ lastBalance' = (IF ok THEN NativeBalance ELSE lastBalance)
              /\ ExitFailure
    /\ UNCHANGED <<variant, lastProbe, lastRead, lastAmount,
                   lamports, landed, txLog, bindings, txBinding,
                   airdropVars, ledgerVars, holderVars>>

-----------------------------------------------------------------------------
(* Transactions *)

TxKinds == {"mint", "payerAta", "mintTo", "receiverAta", "transfer"}

\* The transaction main() submits at each position, and whose holder account
\* a creation is for.
TxKindAt(p) ==
    CASE p = "mint_tx" -> "mint"
      [] p = "payer_create" -> "payerAta"
      [] p = "mintTo" -> "mintTo"
      [] p = "receiver_create" -> "receiverAta"
      [] p = "transfer" -> "transfer"

TxOwner(k) == IF k = "payerAta" THEN "payer" ELSE "receiver"
IsAtaKind(k) == k \in {"payerAta", "receiverAta"}

\* The statement main() reaches once the transaction at p has confirmed.
PcAfterTx(p) ==
    CASE p = "mint_tx" -> "payer_probe"
      [] p = "payer_create" -> "payer_bal"
      [] p = "mintTo" -> "updated_bal"
      [] p = "receiver_create" -> "receiver_bal"
      [] p = "transfer" -> "final_payer"

\* kit's sendAndConfirmTransaction first fetches a blockhash itself; raw calls
\* the library's sendAndConfirmTransaction, one await.
TxEntry == IF variant = "kit" THEN "tx_bh" ELSE "tx_send"

\* kit creates the holder account with getCreateAssociatedTokenInstructionAsync,
\* which the token program rejects when the account exists; raw uses
\* createAssociatedTokenAccountIdempotentInstruction, which then does nothing.
CreateIsIdempotent == variant = "raw"

\* The fee payer holds native funds (fees and rents of the whole run stay
\* below the threshold amount; an unfunded payer can pay for nothing).
PayerCanPay == lamports > 0 \/ landed # {}

\* Whether the ledger can execute the instructions of kind k now.
CanApply(k) ==
    /\ PayerCanPay
    /\ CASE k = "mint" -> TRUE
         [] IsAtaKind(k) ->
              mintExists /\ (CreateIsIdempotent \/ ~ata[TxOwner(k)])
         [] k = "mintTo" -> mintExists /\ ata["payer"]
         [] k = "transfer" -> /\ ata["payer"] /\ ata["receiver"]
                              /\ tokens["payer"] >= TransferAmount

\* What the boundary can answer to a submitted envelope of kind k.
SendOutcomes(k) ==
    {"BlockHeightExceeded", "Rejected"}
        \cup (IF CanApply(k) THEN {"Confirmed"} ELSE {})
        \cup (IF IsAtaKind(k) /\ ata[TxOwner(k)] /\ ~CreateIsIdempotent
              THEN {"AlreadyExists"} ELSE {})

\* kit: try { await sendAndConfirmFn(signedTx); return signature } catch (e) {
\* if (isSolanaError(e, BLOCK_HEIGHT_EXCEEDED)) throw new Error("Blockhash
\* expired ...") else throw e }
SendResultUnmapped(out) ==
    IF out = "Confirmed" THEN "signature" ELSE out
SendResultAllExpired(out) ==
    IF out = "Confirmed" THEN "signature" ELSE "BlockhashExpired"
SendResult(out) ==
    IF out = "Confirmed" THEN "signature"
    ELSE IF out = "BlockHeightExceeded" THEN "BlockhashExpired"
    ELSE out

\* raw: the library call returns the signature or throws the boundary's error.
LibrarySendResult(out) ==
    IF out = "Confirmed" THEN "signature" ELSE out

\* The ledger after executing the instructions of kind k.
Apply(k) ==
    /\ mintExists' = (mintExists \/ k = "mint")
    /\ ata' = (IF IsAtaKind(k) THEN [ata EXCEPT ![TxOwner(k)] = TRUE] ELSE ata)
    /\ tokens' =
         (CASE k = "mintTo" ->
                 [tokens EXCEPT !["payer"] = @ + MintAmount]
            [] k = "transfer" ->
                 [tokens EXCEPT !["payer"] = @ - TransferAmount,
                                !["receiver"] = @ + TransferAmount]
            [] OTHER -> tokens)

\* The holder-account step returns the address, or raises an error.
HolderReturned(o) == [address |-> AtaAddress("mint", o), error |-> "none"]
HolderRaised(e) == [address |-> <<>>, error |-> e]

\* The holder-account step's result, recorded when a creation ends it.
HolderDone(k, res) ==
    holderLog' = (IF IsAtaKind(k)
                  THEN [holderLog EXCEPT ![TxOwner(k)] = Append(@, res)]
                  ELSE holderLog)

\* An error leaving sendAndConfirmTransaction is caught nowhere in main():
\* it rejects main() and main().catch exits the process.
TxFailedResubmit ==
    /\ pc' = pc
    /\ sub' = TxEntry
    /\ exitCode' = exitCode
TxFailedSkipStep ==
    /\ pc' = PcAfterTx(pc)
    /\ sub' = "none"
    /\ exitCode' = exitCode
TxFailed == ExitFailure

\* setTransactionMessageLifetimeUsingBlockhash(latestBlockhash, ...): the
\* envelope is bound to the blockhash this call has just fetched.  A binding
\* is identified with the fetch that returned it.
BindingCached == IF txBinding > 0 THEN txBinding ELSE bindings + 1
BindingUsed == bindings + 1

\* kit: const { value: latestBlockhash } = await rpc.getLatestBlockhash().send()
TxBlockhash ==
    /\ Resumes
    /\ sub = "tx_bh"
    /\ pc \in {"mint_tx", "payer_create", "mintTo", "receiver_create", "transfer"}
    /\ \E ok \in BOOLEAN :
         IF ok
         THEN /\ bindings' = bindings + 1
              /\ txBinding' = BindingUsed
              /\ sub' = "tx_send"
              /\ UNCHANGED <<pc, exitCode, holderLog>>
         ELSE /\ TxFailed
              /\ HolderDone(TxKindAt(pc), HolderRaised("Rejected"))
              /\ UNCHANGED <<bindings, txBinding>>
    /\ UNCHANGED <<variant, lastProbe, lastRead, lastAmount,
                   lamports, lastBalance, landed, txLog, airdropVars,
                   ledgerVars, invocation>>

\* await sendAndConfirmFn(signedTx, { commitment: "confirmed" }) (kit);
\* await sendAndConfirmTransaction(connection, transaction, signers) (raw)
TxSend ==
    /\ Resumes
    /\ sub = "tx_send"
    /\ pc \in {"mint_tx", "payer_create", "mintTo", "receiver_create", "transfer"}
    /\ LET k == TxKindAt(pc) IN
       \E out \in SendOutcomes(k) :
         LET res == IF variant = "kit" THEN SendResult(out)
                    ELSE LibrarySendResult(out) IN
         /\ txLog' = Append(txLog, [kind |-> k, outcome |-> out, result |-> res,
                                    binding |-> txBinding, fetched |-> bindings,
                                    at |-> pc])
         /\ IF res = "signature"
            THEN /\ Apply(k)
                 /\ pc' = PcAfterTx(pc)
                 /\ sub' = "none"
                 /\ HolderDone(k, HolderReturned(TxOwner(k)))
                 /\ UNCHANGED exitCode
            ELSE /\ TxFailed
                 /\ HolderDone(k, HolderRaised(res))
                 /\ UNCHANGED ledgerVars
    /\ UNCHANGED <<variant, lastProbe, lastRead, lastAmount,
                   lamports, lastBalance, landed, bindings, txBinding,
                   airdropVars, invocation>>

-----------------------------------------------------------------------------
(* main(): the provisioning steps *)

\* getMinimumBalanceForRentExemption(...) before the mint transaction is built
MintRent ==
    /\ Resumes
    /\ pc = "mint_rent"
    /\ \E ok \in BOOLEAN :
         IF ok
         THEN pc' = "mint_tx" /\ sub' = TxEntry /\ UNCHANGED exitCode
         ELSE ExitFailure
    /\ UNCHANGED <<variant, lastProbe, lastRead, lastAmount,
                   lamports, lastBalance, landed, txLog, bindings,
                   txBinding, airdropVars, ledgerVars, holderVars>>

\* What getAccountInfo can answer for a holder-account address: the account,
\* null when there is none, or a transport error.
ProbeOutcomes(o) == {"error"} \cup (IF ata[o] THEN {"value"} ELSE {"null"})

\* kit accountExists: try { return accountInfo.value !== null } catch { return
\* false };  raw: try { if (accountInfo !== null) return ata } catch {}
ProbeSaysExistsOnError(out) == out # "null"
ProbeSaysExists(out) == out = "value"

\* The existence probe of the holder-account step and the branch on it.
Probe(o) ==
    /\ Resumes
    /\ pc = o \o "_probe"
    /\ invocation' = [invocation EXCEPT ![o] = @ + 1]
    /\ \E out \in ProbeOutcomes(o) :
         /\ lastProbe' = [owner |-> o, exists |-> ata[o], outcome |-> out,
                          result |-> ProbeSaysExists(out)]
         /\ IF ProbeSaysExists(out)
            THEN /\ holderLog' = [holderLog EXCEPT
                                    ![o] = Append(@, HolderReturned(o))]
                 /\ pc' = o \o "_bal"
                 /\ UNCHANGED sub
            ELSE /\ pc' = o \o "_create"
                 /\ sub' = TxEntry
                 /\ UNCHANGED holderLog
    /\ UNCHANGED <<variant, lastRead, lastAmount,
                   exitCode, lamports, lastBalance, landed, txLog,
                   bindings, txBinding, airdropVars, ledgerVars>>

\* The statement after each token-balance read.
PcAfterRead(p) ==
    CASE p = "payer_bal" -> "mintTo"
      [] p = "updated_bal" -> "receiver_probe"
      [] p = "receiver_bal" -> "transfer"
      [] p = "final_payer" -> "final_receiver"
      [] p = "final_receiver" -> "done"

\* kit getTokenBalance catches every error and returns 0; raw awaits
\* getAccount(connection, address) uncaught.
ReadCanThrow == variant = "raw"

\* The holder account each read is about.
ReadOwner(p) ==
    IF p \in {"receiver_bal", "final_receiver"} THEN "receiver" ELSE "payer"

\* What the read hands to main(): the ledger's amount when the lookup
\* succeeded; on a failed lookup kit's getTokenBalance returns BigInt(0) (and
\* raw has no value: the error propagates).
ReadValue(ok, o) == IF ok THEN tokens[o] ELSE 0

\* One token-balance read of main(): after each holder-account step, after the
\* issuance, and the two final reads.
ReadTokenBalance ==
    /\ Resumes
    /\ pc \in {"payer_bal", "updated_bal", "receiver_bal", "final_payer",
               "final_receiver"}
    /\ \E ok \in BOOLEAN :
         /\ lastRead' = [at |-> pc, owner |-> ReadOwner(pc), ok |-> ok,
                         raised |-> ~ok /\ ReadCanThrow,
                         value |-> ReadValue(ok, ReadOwner(pc))]
         /\ IF ok \/ ~ReadCanThrow
            THEN /\ pc' = PcAfterRead(pc)
                 /\ sub' = (IF PcAfterRead(pc) \in {"mintTo", "transfer"}
                            THEN TxEntry ELSE "none")
                 /\ UNCHANGED exitCode
            ELSE ExitFailure
    /\ UNCHANGED <<variant, lastProbe, lastAmount,
                   lamports, lastBalance, landed, txLog, bindings,
                   txBinding, airdropVars, ledgerVars, holderVars>>

-----------------------------------------------------------------------------
(* Specifications *)

Next ==
    \/ Connect
    \/ LoadKeypair
    \/ CheckBalance
    \/ AirdropRequest
    \/ AirdropFallThrough
    \/ AirdropPoll
    \/ AirdropBlockhash
    \/ AirdropConfirm
    \/ Rebalance
    \/ MintRent
    \/ TxBlockhash
    \/ TxSend
    \/ \E o \in Owners : Probe(o)
    \/ ReadTokenBalance
    \/ ExitSuccess
    \/ Issue
    \/ LedgerLand

Spec == Init /\ [][Next]_vars

\* Every awaited RPC call and every timer eventually returns, so a run that
\* can take a step eventually takes one.  Nothing is assumed about which
\* answer a call gives, nor about when the ledger processes a request.
SpecFair == Spec /\ WF_vars(Next)

\* Scenario of the idempotence property: the holder-account step entered a
\* second time for the same (mint, owner), right after its first run returned.
\* The scripts themselves run the step once per owner (Spec).
Reinvoke(o) ==
    /\ pc = o \o "_bal"
    /\ invocation[o] = 1
    /\ inflight = {}
    /\ pc' = o \o "_probe"
    /\ UNCHANGED <<variant, inflight, lastProbe, lastRead, lastAmount,
                   sub, exitCode, lamports, lastBalance, landed, txLog,
                   bindings, txBinding, airdropVars, ledgerVars, holderVars>>

NextTwice == Next \/ \E o \in Owners : Reinvoke(o)

SpecTwice == Init /\ [][NextTwice]_vars

-----------------------------------------------------------------------------
(* Vocabulary of the properties *)

\* airdropWithRetry has returned or thrown.
AirdropEnded == airdropResult \in {"signature", "undefined", "threw"}

\* Number of envelopes of kind k handed to the boundary.
Submitted(k) == Cardinality({i \in DOMAIN txLog : txLog[i].kind = k})

\* An envelope of kind k was confirmed before the i-th submission.
ConfirmedBefore(k, i) ==
    \E j \in 1..(i - 1) : txLog[j].kind = k /\ txLog[j].result = "signature"

\* The funding step succeeded: the payer's most recent balance read is at or
\* above the threshold, or the faucet call returned a confirmed signature.
Funded == airdropResult = "signature" \/ ~BelowThreshold(lastBalance)

\* The holder-account step for o has returned the account's address.
HolderReady(o) ==
    /\ Len(holderLog[o]) >= 1
    /\ holderLog[o][1] = HolderReturned(o)

\* Some step has raised an error that nothing in main() handles.
FatalRaised ==
    \/ pc = "aborted"
    \/ airdropResult = "threw"
    \/ \E i \in DOMAIN txLog : txLog[i].result # "signature"

-----------------------------------------------------------------------------
(* Properties *)

\* C1: airdropWithRetry with maxRetries = 3 whose every attempt fails with a
\* rate-limit error raises an error to its caller after exactly 3 request
\* attempts; it does not return normally.
C1_RaisesAfterThreeRateLimits ==
    (AirdropEnded /\ attempts = <<"RateLimited", "RateLimited", "RateLimited">>)
        => (airdropResult = "threw" /\ requests = 3)

\* C2: with rate-limit failures on attempts 1 and 2 and a confirmed request on
\* attempt 3, airdropWithRetry returns the third request's signature after
\* exactly two backoff sleeps, of 2000 ms then 4000 ms.
C2_TwoBackoffsThenSuccess ==
    (AirdropEnded /\ attempts = <<"RateLimited", "RateLimited", "Ok">>)
        => /\ airdropResult = "signature"
           /\ airdropValue = 3
           /\ requests = 3
           /\ sleeps = <<2000, 4000>>

C2_Witness ==
    /\ airdropResult = "signature"
    /\ attempts = <<"RateLimited", "RateLimited", "Ok">>

\* C3: in a run at most one funding request issued by airdropWithRetry is
\* credited to the payer.
C3_AtMostOneCredit == Cardinality(landed) <= 1

\* C4: when funding was needed and every attempt of airdropWithRetry failed,
\* the run ends ABORTED (exit code 1) and the mint-creation transaction is
\* never submitted.
C4_ExhaustionAborts ==
    (AirdropEnded /\ \A i \in DOMAIN attempts : attempts[i] # "Ok")
        => /\ Submitted("mint") = 0
           /\ exitCode \in {-1, 1}
           /\ pc \in {"airdrop", "rebalance", "aborted"}

\* C5: a submission whose lifetime the boundary reports as exceeded never
\* yields a signature; in the kit script it is surfaced as the distinct
\* blockhash-expired error.
C5_ExpiredNeverConfirmed ==
    \A i \in DOMAIN txLog :
        txLog[i].outcome = "BlockHeightExceeded"
            => /\ txLog[i].result # "signature"
               /\ variant = "kit" => txLog[i].result = "BlockhashExpired"
               /\ pc = "aborted"

C5_Witness ==
    /\ variant = "kit"
    /\ \E i \in DOMAIN txLog : txLog[i].outcome = "BlockHeightExceeded"

\* C6: no envelope is resubmitted: every kind of transaction (mint creation,
\* issuance, transfer, holder-account creation) is handed to the boundary at
\* most once per run, each envelope carries the blockhash fetched for it alone,
\* and a submission that fails (EXPIRED included) is the last one of the run,
\* which ends ABORTED.
C6_NoResubmission ==
    /\ \A k \in TxKinds : Submitted(k) <= 1
    /\ \A i \in DOMAIN txLog :
           txLog[i].result # "signature" => (i = Len(txLog) /\ pc = "aborted")
    /\ variant = "kit" =>
           \A i, j \in DOMAIN txLog :
               i # j => txLog[i].binding # txLog[j].binding

C6_Witness ==
    /\ pc = "aborted"
    /\ Len(txLog) = 5
    /\ txLog[5].kind = "transfer"
    /\ txLog[5].outcome = "BlockHeightExceeded"

\* C7: no step's transaction is submitted before the previous step completed
\* successfully: mint creation only once the payer is funded, the payer's
\* holder account only after the mint confirmed, issuance only after the
\* payer's holder-account step returned, the receiver's holder account only
\* after issuance confirmed, the transfer only after issuance confirmed and the
\* receiver's holder-account step returned.
C7_StepsInOrder ==
    \A i \in DOMAIN txLog :
        LET k == txLog[i].kind IN
        /\ k = "mint" => Funded
        /\ k = "payerAta" => ConfirmedBefore("mint", i)
        /\ k = "mintTo" => (ConfirmedBefore("mint", i) /\ HolderReady("payer"))
        /\ k = "receiverAta" => ConfirmedBefore("mintTo", i)
        /\ k = "transfer" =>
               (ConfirmedBefore("mintTo", i) /\ HolderReady("receiver"))

\* C8: once a step has raised a fatal error, the run makes no further
\* funding request, blockhash fetch or transaction submission, and stays
\* ABORTED.
C8_AbortedIsTerminal ==
    [][FatalRaised => /\ pc = "aborted"
                      /\ pc' = "aborted"
                      /\ requests' = requests
                      /\ bindings' = bindings
                      /\ txLog' = txLog]_vars

C8_Witness ==
    /\ pc = "aborted"
    /\ Len(txLog) = 3
    /\ txLog[3].result # "signature"
    /\ requests > 0

\* C9: the holder-account step performed twice in sequence for the same
\* (mint, owner) yields the same address both times and the second run does
\* not raise because the account is already there (a boundary failure that has
\* nothing to do with the account aside).
C9_HolderStepIdempotent ==
    \A o \in Owners :
        (Len(holderLog[o]) >= 2
            /\ holderLog[o][2].error \notin {"Rejected", "BlockhashExpired",
                                             "BlockHeightExceeded"})
            => (holderLog[o][2].error = "none"
                /\ holderLog[o][2].address = holderLog[o][1].address)

\* C10: when the probe reports an existing holder account as absent, the
\* creation's "already exists" rejection is absorbed: the run goes on to the
\* next state instead of ABORTED.
C10_AlreadyExistsAbsorbed ==
    \A i \in DOMAIN txLog :
        txLog[i].outcome = "AlreadyExists"
            => (pc # "aborted" /\ txLog[i].result = "signature")

\* C11 (as stated): accountExists returns false for every address with no
\* allocated state and true on every call made after the account's creation
\* confirmed.
C11_ProbeAlwaysTruthful ==
    lastProbe.owner # "none" => lastProbe.result = lastProbe.exists

\* C11 (amended): accountExists returns false for every address with no
\* allocated state and whenever the lookup itself fails; it returns true on
\* every call after the account's creation confirmed whose lookup the boundary
\* answers; and no probe ends the run (it never raises).
C11_ProbeTruthfulUnlessLookupFails ==
    /\ [](lastProbe.owner # "none" =>
            /\ ~lastProbe.exists => ~lastProbe.result
            /\ lastProbe.outcome = "error" => ~lastProbe.result
            /\ (lastProbe.exists /\ lastProbe.outcome # "error")
                   => lastProbe.result)
    /\ [][(inflight = {"getAccountInfo"} /\ inflight' = {})
              => pc' # "aborted"]_vars

C11_Witness ==
    /\ lastProbe.exists
    /\ lastProbe.outcome = "value"
    /\ lastProbe.result
    /\ invocation[lastProbe.owner] = 2

\* C12: a token-balance read never raises: a failed lookup yields 0 and does
\* not move the run to ABORTED.
C12_BalanceReadNeverRaises ==
    lastRead.at # "none" =>
        /\ ~lastRead.raised
        /\ ~lastRead.ok => (lastRead.value = 0 /\ pc # "aborted")

\* C13: a run that starts with the payer at or above the threshold and gets to
\* the end issued no funding request, issued 1000 tokens (1000 * 10^9 base
\* units) once and transferred 100 once, and ends with 900 on the payer's
\* holder account and 100 on the receiver's; the final reads that succeed
\* report exactly these.
C13_NoFundingScenario ==
    /\ (lamports >= Threshold /\ pc \in {"done", "exited"}) =>
          /\ requests = 0
          /\ airdropResult = "notcalled"
          /\ Submitted("mintTo") = 1
          /\ Submitted("transfer") = 1
          /\ tokens["payer"] = 900
          /\ tokens["receiver"] = 100
          /\ lastRead.at = "final_receiver"
          /\ lastRead.ok => lastRead.value = 100
    /\ (lamports >= Threshold /\ pc = "final_receiver" /\ lastRead.ok) =>
          lastRead.value = 900
    /\ (lamports >= Threshold /\ pc = "receiver_probe" /\ lastRead.ok) =>
          lastRead.value = 1000

C13_Witness ==
    /\ lamports = 2 * Threshold
    /\ pc = "exited"
    /\ lastRead.ok
    /\ lastRead.value = 100
    /\ tokens["payer"] = 900

\* C14: in a run that starts with payer balance 0, a funding request precedes
\* every transaction submission and every funding request asks for exactly 10
\* native units; once a request was seen confirmed, a run that gets to the
\* end has the final balances of the no-funding scenario.
C14_FundingScenario ==
    lamports = 0 =>
        /\ txLog # <<>> => requests >= 1
        /\ pc = "airdrop" => txLog = <<>>
        /\ requests >= 1 => lastAmount = 10
        /\ (airdropResult = "signature" /\ pc \in {"done", "exited"}) =>
              /\ tokens["payer"] = 900
              /\ tokens["receiver"] = 100

C14_Witness ==
    /\ lamports = 0
    /\ airdropResult = "signature"
    /\ pc = "exited"
    /\ lastAmount = 10

\* Every step of the workflow completed: the payer is funded, the mint, the
\* issuance and the transfer confirmed, both holder-account steps returned.
AllStepsCompleted ==
    /\ Funded
    /\ \A k \in {"mint", "mintTo", "transfer"} :
           ConfirmedBefore(k, Len(txLog) + 1)
    /\ \A o \in Owners : HolderReady(o)

\* C15: the process exits with code 0 if and only if the workflow reached
\* DONE with every step completed, and with a non-zero code when it ended
\* ABORTED.
C15_ExitCodeContract ==
    /\ exitCode = 0 <=> (pc = "exited" /\ AllStepsCompleted)
    /\ pc = "aborted" => exitCode = 1
    /\ exitCode # -1 => pc \in {"exited", "aborted"}

\* C16: whenever airdropWithRetry (kit) throws and some attempt ended by poll
\* timeout, the error the caller receives is the confirmation-timeout error.
C16_TimeoutDistinguishable ==
    (variant = "kit" /\ airdropResult = "threw"
        /\ \E i \in DOMAIN attempts : attempts[i] = "Timeout")
        => airdropValue.kind = "Timeout"

\* Number of attempts that ended with a rate-limit error.
RateLimitedCount ==
    Cardinality({i \in DOMAIN attempts : attempts[i] = "RateLimited"})

\* C17: whatever the attempts' outcomes, airdropWithRetry issues at most
\* maxRetries funding requests, and only rate-limited failures are followed
\* by a backoff sleep.
C17_SharedCeiling ==
    /\ requests <= MaxRetries
    /\ Len(attempts) <= requests
    /\ Len(sleeps) <= RateLimitedCount

C17_Witness ==
    /\ requests = MaxRetries
    /\ airdropResult = "threw"
    /\ sleeps = <<>>
    /\ \E i \in DOMAIN attempts : attempts[i] = "Timeout"
    /\ \E i \in DOMAIN attempts : attempts[i] = "Other"

\* C18: in the kit script every submitted envelope carries the binding its own
\* sendAndConfirmTransaction call fetched (the most recent fetch at the time
\* of sending), and no binding is carried by two envelopes.
C18_FreshBindingPerEnvelope ==
    variant = "kit" =>
        /\ bindings >= Len(txLog)
        /\ \A i \in DOMAIN txLog :
               /\ txLog[i].binding >= 1
               /\ txLog[i].binding = txLog[i].fetched
               /\ \A j \in DOMAIN txLog :
                      i # j => txLog[i].binding # txLog[j].binding

C18_Witness ==
    /\ variant = "kit"
    /\ Len(txLog) = 5
    /\ txLog[5].binding = 5

\* C19: a submission error other than lifetime-exceeded leaves
\* sendAndConfirmTransaction as the boundary raised it: never as the
\* blockhash-expired error, never as a signature.
C19_OtherErrorsUnmodified ==
    \A i \in DOMAIN txLog :
        txLog[i].outcome \notin {"Confirmed", "BlockHeightExceeded"}
            => /\ txLog[i].result = txLog[i].outcome
               /\ txLog[i].result \notin {"signature", "BlockhashExpired"}

C19_Witness ==
    /\ variant = "kit"
    /\ \E i \in DOMAIN txLog : txLog[i].outcome = "Rejected"

\* C20: at most one RPC call of the run is in flight at any time.
C20_OneCallInFlight == Cardinality(inflight) <= 1

C20_Witness ==
    /\ inflight = {"getSignatureStatuses"}
    /\ pollCount > 0
    /\ retries > 0

\* C21: airdropWithRetry (kit) returns a signature only if a status query
\* for that very signature, made in the attempt that requested it, answered
\* 'confirmed' or 'finalized'; the signature returned is the one of the last
\* request issued and that request has landed.
C21_ReturnOnlyOnConfirmed ==
    (variant = "kit" /\ airdropResult = "signature") =>
        /\ lastStatus.sig = airdropValue
        /\ lastStatus.status \in {"confirmed", "finalized"}
        /\ airdropValue = requests
        /\ attempts[requests] = "Ok"
        /\ airdropValue \in landed

C21_Witness ==
    /\ variant = "kit"
    /\ airdropResult = "signature"
    /\ lastStatus = [sig |-> 3, status |-> "finalized"]
    /\ attempts = <<"Timeout", "Other", "Ok">>

\* The attempt (counted from 1) that the j-th rate-limited failure ended.
RateLimitedAttempt(j) ==
    CHOOSE i \in DOMAIN attempts :
        /\ attempts[i] = "RateLimited"
        /\ Cardinality({m \in 1..i : attempts[m] = "RateLimited"}) = j

\* C22: the wait after the k-th failed attempt, when that failure is
\* rate-limited, is exactly 1000 * 2^k ms, and the waits of one
\* airdropWithRetry call are strictly increasing, whatever failures lie
\* between the rate-limited ones.
C22_BackoffDoubles ==
    /\ \A j \in DOMAIN sleeps :
           /\ j <= RateLimitedCount
           /\ sleeps[j] = 1000 * 2 ^ RateLimitedAttempt(j)
    /\ \A j \in DOMAIN sleeps : j > 1 => sleeps[j - 1] < sleeps[j]

C22_Witness ==
    /\ attempts = <<"RateLimited", "Other", "RateLimited">>
    /\ sleeps = <<2000, 8000>>

\* C23: when all maxRetries attempts have failed and the last failure is not
\* rate-limited, airdropWithRetry throws the error of that last attempt,
\* after exactly maxRetries funding requests.
C23_ThrowsLastError ==
    (Len(attempts) = MaxRetries /\ attempts[MaxRetries] \notin {"Ok", "RateLimited"})
        => /\ airdropResult = "threw"
           /\ airdropValue.attempt = MaxRetries
           /\ airdropValue.kind = attempts[MaxRetries]
           /\ requests = MaxRetries

C23_Witness ==
    /\ airdropResult = "threw"
    /\ attempts = <<"Timeout", "RateLimited", "Other">>
    /\ airdropValue = [kind |-> "Other", attempt |-> 3]
    /\ requests = 3

\* C25: funding is requested if and only if the payer's balance read at the
\* start is strictly below 10,000,000 lamports; with exactly 10,000,000 the
\* run makes no funding request and goes on to create the mint.  (No credit
\* reaches the payer before the first request, so the balance read at the
\* start is the initial balance.)
C25_FundingIffBelowThreshold ==
    /\ airdropResult # "notcalled" => lamports < 10000000
    /\ requests >= 1 => lamports < 10000000
    /\ pc \notin {"connect", "load", "balance", "aborted"} =>
          (airdropResult # "notcalled" <=> lamports < 10000000)
    /\ pc \notin {"connect", "load", "balance", "aborted", "airdrop"} =>
          (requests >= 1 <=> lamports < 10000000)
    /\ (lamports = 10000000 /\ txLog # <<>>) =>
          (requests = 0 /\ txLog[1].kind = "mint")

C25_Witness ==
    /\ lamports = Threshold
    /\ pc = "mint_tx"
    /\ requests = 0
    /\ lastBalance = [base |-> 10000000, credits |-> 0]

\* C26: in the kit script a transaction is submitted only if the most recent
\* read of the payer's native balance was at or above the threshold; once
\* airdropWithRetry has returned, with a signature or with nothing, the
\* balance has been read again, and a run whose re-read failed or was still
\* below the threshold is aborted with exit code 1 and has submitted nothing.
C26_RereadBeforeMint ==
    variant = "kit" =>
        /\ txLog # <<>> =>
              (lastBalance.credits > 0 \/ lastBalance.base >= 10000000)
        /\ (airdropResult \in {"signature", "undefined"} /\ pc # "rebalance")
              => \/ lastBalance.credits > 0
                 \/ /\ pc = "aborted"
                    /\ exitCode = 1
                    /\ txLog = <<>>

C26_Witness ==
    /\ variant = "kit"
    /\ airdropResult = "undefined"
    /\ pc = "aborted"
    /\ lastBalance.credits = 0
    /\ Len(attempts) = 3

\* C27: the number of backoff sleeps equals the number of attempts that
\* failed with a rate-limit error; a rate-limited failure of attempt
\* maxRetries is still followed by a sleep of 1000 * 2^maxRetries = 8000 ms,
\* after which no further funding request is made and the function ends
\* without throwing.
C27_SleepPerRateLimit ==
    /\ Len(sleeps) = RateLimitedCount
    /\ (Len(attempts) = MaxRetries /\ attempts[MaxRetries] = "RateLimited") =>
          /\ sleeps[Len(sleeps)] = 8000
          /\ requests = MaxRetries
          /\ airdropResult \in {"running", "undefined"}

C27_Witness ==
    /\ attempts = <<"Other", "Timeout", "RateLimited">>
    /\ sleeps = <<8000>>
    /\ airdropResult = "undefined"
    /\ requests = 3

\* Number of attempts that ended with the confirmation timeout.
TimeoutCount ==
    Cardinality({i \in DOMAIN attempts : attempts[i] = "Timeout"})

\* C24: airdropWithRetry (kit) always ends when every call returns: it
\* makes at most maxRetries funding requests, at most 30 status queries for
\* each accepted request (hence at most 30 * maxRetries), at most maxRetries
\* backoff sleeps; every status query, erroring or not, uses up one of the 30
\* of its attempt, and a query that is not the 30th of its attempt never ends
\* the attempt in failure, whatever it answers.
C24_AirdropTerminates ==
    /\ [](variant = "kit" =>
            /\ requests <= MaxRetries
            /\ pollCount <= 30
            /\ statusQueries <= 30 * Cardinality(accepted)
            /\ statusQueries <= 30 * MaxRetries
            /\ statusQueries <= 30 * TimeoutCount + pollCount + 1
            /\ Len(sleeps) <= MaxRetries)
    /\ [][(variant = "kit" /\ statusQueries' = statusQueries + 1
              /\ pollCount + 1 < 30)
             => (attempts' = attempts \/ airdropResult' = "signature")]_vars
    /\ (airdropResult = "running") ~> (airdropResult # "running")

C24_Witness ==
    /\ variant = "kit"
    /\ statusQueries = 90
    /\ airdropResult = "threw"
    /\ attempts = <<"Timeout", "Timeout", "Timeout">>

\* C28: every run eventually reaches DONE or ABORTED and the process exits,
\* whatever the calls answer, as long as every call and every sleep returns.
C28_RunTerminates == <>(pc \in {"exited", "aborted"})

C28_Witness ==
    /\ pc = "exited"
    /\ attempts = <<"Timeout", "RateLimited", "Ok">>
    /\ sleeps = <<4000>>
    /\ Len(txLog) = 5

=============================================================================
